---- MODULE Spec2Model ----
(***************************************************************************)
(* Model of the proof-of-work search of scavenger_miner (src/src/main.rs): *)
(* the difficulty predicate meets_difficulty, the preimage encoder         *)
(* build_preimage, the nonce search mine_challenge with its MiningContext, *)
(* and one session of main (registration, challenge fetch, search,         *)
(* submission).  The sharded search the specification describes as an      *)
(* extension is modelled from the specification.                           *)
(*                                                                         *)
(* Text (Rust String / &str) is a sequence of one-character strings.       *)
(* A byte is an integer in 0..255.  A u64 is a sequence of 16 nibbles,     *)
(* most significant first, so that arithmetic mod 2^64 keeps its width.    *)
(***************************************************************************)
EXTENDS Integers, Sequences, FiniteSets, TLC

\* ------------------------------------------------------------- bounds
MaxIter == 3          \* largest max_iterations a search is started with
MaxHashLen == 5       \* longest digest handed to meets_difficulty on its own
MaxDiffBytes == 5     \* most hex pairs in a difficulty handed to it on its own

\* -------------------------------------------------- program constants
NB_LOOPS == 8
NB_INSTRS == 256
MIXING_NUMBERS == 4
PRE_SIZE == 16 * 1024 * 1024
ROM_SIZE == 1024 * 1024 * 1024
HASH_LEN == 64        \* MiningContext::hash returns [u8; 64]
NONCE_WIDTH == 16     \* "{:016x}"
SEED_SHOWN == 16      \* &no_pre_mine[..16.min(len)]
COMPARED == 4         \* 0..4.min(diff_bytes.len())

Min(a, b) == IF a < b THEN a ELSE b

\* ---------------------------------------------------------------- text
\* A character is a one-character string, or the name "U+XXXX" of a code
\* point TLA+ has no literal for.  Its length in UTF-8:
TwoByteChars == {"U+00E9", "U+0085", "U+00A0"}
ThreeByteChars ==
    {"U+1680", "U+2000", "U+2001", "U+2002", "U+2003", "U+2004", "U+2005",
     "U+2006", "U+2007", "U+2008", "U+2009", "U+200A", "U+2028", "U+2029",
     "U+202F", "U+205F", "U+3000"}
Utf8Len(c) ==
    IF c \in TwoByteChars THEN 2 ELSE IF c \in ThreeByteChars THEN 3 ELSE 1

\* The number of bytes of the first k characters of s.
RECURSIVE BytesUpTo(_, _)
BytesUpTo(s, k) == IF k = 0 THEN 0 ELSE Utf8Len(s[k]) + BytesUpTo(s, k - 1)

\* str::len: the length in bytes.
ByteLen(s) == BytesUpTo(s, Len(s))

\* str::is_char_boundary: 0, the length, and the start of every character.
is_char_boundary(s, idx) ==
    \E k \in 0..Len(s) : BytesUpTo(s, k) = idx

\* ------------------------------------------------------------ hex text
HexChars == <<"0", "1", "2", "3", "4", "5", "6", "7",
              "8", "9", "a", "b", "c", "d", "e", "f">>

\* The value of one hex character, either case; -1 for any other character.
HexVal(c) ==
    CASE c = "0" -> 0  [] c = "1" -> 1  [] c = "2" -> 2  [] c = "3" -> 3
      [] c = "4" -> 4  [] c = "5" -> 5  [] c = "6" -> 6  [] c = "7" -> 7
      [] c = "8" -> 8  [] c = "9" -> 9
      [] c = "a" -> 10 [] c = "b" -> 11 [] c = "c" -> 12
      [] c = "d" -> 13 [] c = "e" -> 14 [] c = "f" -> 15
      [] c = "A" -> 10 [] c = "B" -> 11 [] c = "C" -> 12
      [] c = "D" -> 13 [] c = "E" -> 14 [] c = "F" -> 15
      [] OTHER -> -1

\* hex::decode: Err on an odd length or a non-hex character, else one byte
\* per pair of characters, the first character the high nibble.
hex_decode(s) ==
    IF Len(s) % 2 # 0 \/ (\E k \in 1..Len(s) : HexVal(s[k]) = -1)
    THEN [ok |-> FALSE, bytes |-> <<>>]
    ELSE [ok |-> TRUE,
          bytes |-> [k \in 1..(Len(s) \div 2) |->
                        16 * HexVal(s[2 * k - 1]) + HexVal(s[2 * k])]]

\* ----------------------------------------------------- meets_difficulty
\* The upper end of the loop range: 4.min(diff_bytes.len()).
LoopBoundMut4(diff_bytes) == COMPARED
LoopBound(diff_bytes) == Min(COMPARED, Len(diff_bytes))

\* A slice read: a panic when the index is out of bounds.
InBounds(s, i) == i < Len(s)

\* The guard  if i >= hash.len() { return false; }
ShortGuard(hash, i) == i >= Len(hash)

\* The body of one iteration with both bytes at hand:
\* "true" / "false" to return, "next" to go on to the next index.
CompareByteMutLe(h, d) ==
    IF h <= d THEN "true" ELSE "false"
CompareByteMutSwapped(h, d) ==
    IF h > d THEN "true" ELSE IF h < d THEN "false" ELSE "next"
CompareByte(h, d) ==
    IF h < d THEN "true" ELSE IF h > d THEN "false" ELSE "next"

\* The loop from index i on (0-based, as in the code); reads is the set of
\* indices read so far.  outcome is "true", "false" or "panic".
RECURSIVE md_loop(_, _, _, _)
md_loop(hash, diff_bytes, i, reads) ==
    IF i >= LoopBound(diff_bytes)
    THEN [outcome |-> "true", reads |-> reads]
    ELSE IF ShortGuard(hash, i)
    THEN [outcome |-> "false", reads |-> reads]
    ELSE IF ~InBounds(hash, i) \/ ~InBounds(diff_bytes, i)
    THEN [outcome |-> "panic", reads |-> reads \cup {i}]
    ELSE LET c == CompareByte(hash[i + 1], diff_bytes[i + 1])
         IN  IF c = "next"
             THEN md_loop(hash, diff_bytes, i + 1, reads \cup {i})
             ELSE [outcome |-> c, reads |-> reads \cup {i}]

\* Err(_) => return false
OnDecodeErrorMutAccept == "true"
OnDecodeError == "false"

md_run(hash, difficulty) ==
    LET dec == hex_decode(difficulty)
    IN  IF ~dec.ok
        THEN [outcome |-> OnDecodeError, reads |-> {}]
        ELSE md_loop(hash, dec.bytes, 0, {})

meets_difficulty(hash, difficulty) == md_run(hash, difficulty).outcome

\* ------------------------------------------------------ build_preimage
build_preimageMutOrder(nonce, address, challenge) ==
    nonce \o address \o challenge.challenge_id \o challenge.difficulty
          \o challenge.latest_submission \o challenge.no_pre_mine
          \o challenge.no_pre_mine_hour
build_preimage(nonce, address, challenge) ==
    nonce \o address \o challenge.challenge_id \o challenge.difficulty
          \o challenge.no_pre_mine \o challenge.latest_submission
          \o challenge.no_pre_mine_hour

\* ------------------------------------------------------------ u64 nonce
\* What n + i carries into nibble pos (pos = Len(n) is the lowest nibble,
\* which takes i itself; pos = 0 is the carry out of the u64).
RECURSIVE CarryInto(_, _, _)
CarryInto(n, pos, i) ==
    IF pos = Len(n) THEN i
    ELSE (n[pos + 1] + CarryInto(n, pos + 1, i)) \div 16

\* u64::wrapping_add: n + i mod 2^64, the carry out of the top nibble dropped.
wrapping_addMutSaturate(n, i) ==
    IF CarryInto(n, 0, i) # 0
    THEN [k \in 1..Len(n) |-> 15]
    ELSE [k \in 1..Len(n) |-> (n[k] + CarryInto(n, k, i)) % 16]
wrapping_add(n, i) ==
    [k \in 1..Len(n) |-> (n[k] + CarryInto(n, k, i)) % 16]

\* "{:x}": the lowercase hex digits from the first non-zero one on ("0" for 0).
LowerHex(n) ==
    LET nz == {q \in 1..Len(n) : n[q] # 0}
        first == IF nz = {} THEN Len(n)
                 ELSE CHOOSE q \in nz : \A r \in nz : q <= r
    IN  [k \in 1..(Len(n) - first + 1) |-> HexChars[n[first + k - 1] + 1]]

PadLeft(s, width, c) ==
    IF Len(s) >= width THEN s ELSE [k \in 1..(width - Len(s)) |-> c] \o s

\* format!("{:016x}", nonce)
format_016xMutNoPad(n) == LowerHex(n)
format_016x(n) == PadLeft(LowerHex(n), NONCE_WIDTH, "0")

\* ------------------------------------------------------- MiningContext
\* Rom::new(no_pre_mine.as_bytes(), TwoStep { pre_size, mixing_numbers },
\* ROM_SIZE): an opaque value fixed by its arguments; instance tells one
\* construction from another.
RomNew(seed, instance) ==
    [seed |-> seed, pre_size |-> PRE_SIZE, mixing_numbers |-> MIXING_NUMBERS,
     size |-> ROM_SIZE, instance |-> instance]

\* The argument mine_challenge passes as the ROM seed.
RomSeedOfMutStale(challenge) == challenge.latest_submission
RomSeedOf(challenge) == challenge.no_pre_mine

\* &no_pre_mine[..16.min(no_pre_mine.len())] panics off a char boundary.
SeedSlicePanics(no_pre_mine) ==
    ~is_char_boundary(no_pre_mine, Min(SEED_SHOWN, ByteLen(no_pre_mine)))

MiningContext_new(no_pre_mine, nb_loops, nb_instrs, instance) ==
    [rom |-> RomNew(no_pre_mine, instance),
     nb_loops |-> nb_loops, nb_instrs |-> nb_instrs]

\* The arguments MiningContext::hash hands to ashmaize::hash.
HashInputMutSwapped(c, preimage) ==
    [preimage |-> preimage, rom |-> c.rom,
     nb_loops |-> c.nb_instrs, nb_instrs |-> c.nb_loops]
HashInput(c, preimage) ==
    [preimage |-> preimage, rom |-> c.rom,
     nb_loops |-> c.nb_loops, nb_instrs |-> c.nb_instrs]

\* --------------------------------------------------------------- inputs
Txt_addrX == <<"a", "d", "d", "r", "X">>
Txt_c1 == <<"c", "1">>
Txt_seedA == <<"s", "e", "e", "d", "A">>
Txt_ls1 == <<"l", "s", "1">>
Txt_h1 == <<"h", "1">>
\* 15 ASCII characters and a two-byte one: byte 16 is inside the last.
Txt_seedOffBoundary ==
    <<"0", "0", "1", "9", "c", "9", "6", "b", "6", "a", "3", "0", "e", "e", "3",
      "U+00E9">>

\* my_address.trim(): any text, the empty one included.
Addresses == {Txt_addrX, <<>>}
NoPreMines == {Txt_seedA, Txt_seedOffBoundary}
SearchDifficulties ==
    { <<"0", "0", "f", "f", "f", "f", "f", "f", "f", "f">>,   \* 5 bytes
      <<"0", "f", "F", "0">>,                                 \* 2 bytes, mixed case
      <<>>,                                                   \* 0 bytes
      <<"0", "g">>,                                           \* not hex
      <<"0", "0", "f">> }                                     \* odd length

Challenges ==
    { [challenge_id |-> Txt_c1, difficulty |-> d, no_pre_mine |-> n,
       latest_submission |-> Txt_ls1, no_pre_mine_hour |-> Txt_h1] :
      d \in SearchDifficulties, n \in NoPreMines }

\* Readings of the clock, in seconds since the epoch, as u64 (the clock is
\* taken to be at or after the epoch, so that duration_since yields Ok).
U64_zero == [k \in 1..NONCE_WIDTH |-> 0]
U64_max == [k \in 1..NONCE_WIDTH |-> 15]
U64_max_less_1 == [k \in 1..NONCE_WIDTH |-> IF k = NONCE_WIDTH THEN 14 ELSE 15]
U64_clock == <<0, 0, 0, 0, 0, 0, 0, 0, 6, 9, 0, 4, 14, 15, 15, 15>>
SeedSamples == {U64_zero, U64_max, U64_max_less_1, U64_clock}

\* What SystemTime::now().duration_since(UNIX_EPOCH) gives: Ok with the
\* seconds since the epoch, or Err when the clock stands before the epoch.
ClockReadings ==
    {[ok |-> TRUE, secs |-> s] : s \in SeedSamples}
        \cup {[ok |-> FALSE, secs |-> U64_zero]}

\* A 64-byte digest with the given leading bytes.
Digest64(prefix) == prefix \o [k \in 1..(HASH_LEN - Len(prefix)) |-> 0]
DigestSamples ==
    { Digest64(<<0, 0, 0, 0>>), Digest64(<<15, 240, 7, 7>>),
      Digest64(<<15, 241, 0, 0>>), Digest64(<<240, 15, 0, 0>>) }

\* ---------------------------------------------------------------- state
VARIABLES
    pc,              \* "Initializing", "Searching", "Found", "Exhausted", "Panicked"; "Idle" outside a search
    address,         \* the miner identity
    challenge,       \* the Challenge
    max_iterations,
    ctx,             \* <<>> or <<the MiningContext>>
    rom_builds,      \* number of Rom::new calls
    random_start,    \* the seed, a u64
    i,               \* the loop index
    oracle,          \* the digests ashmaize::hash has given: {[input, digest]}
    calls,           \* the hash calls made, in order
    reports,         \* the throughput figures printed, in order
    result,          \* <<>> for None, <<nonce_hex>> for Some(nonce_hex)
    md_pc,           \* "Idle", "Call", "Returned": meets_difficulty on its own
    md_hash,
    md_difficulty,
    md_out,
    main_pc,         \* where main is: "NoSession" when mine_challenge is called on its own
    reg,             \* how registration went: "none", "skipped", "ok", "failed"
    submissions,     \* the submit_solution requests sent, in order
    sh_n,            \* sharded search: the number of workers
    sh_len,          \* sharded search: the length of the nonce range
    sh_sat,          \* sharded search: the offsets whose digest meets the difficulty
    sh_cur,          \* sharded search: each worker's nonce cursor (an offset from the seed)
    sh_wpc,          \* sharded search: each worker's position
    sh_cancel,       \* sharded search: the cancellation flag
    sh_winner        \* sharded search: <<>> or <<the offset of the first success>>

searchVars == <<pc, address, challenge, max_iterations, ctx, rom_builds,
                random_start, i, oracle, calls, reports, result>>
mdVars == <<md_pc, md_hash, md_difficulty, md_out>>
mainVars == <<main_pc, reg, submissions>>
shardVars == <<sh_n, sh_len, sh_sat, sh_cur, sh_wpc, sh_cancel, sh_winner>>
vars == <<pc, address, challenge, max_iterations, ctx, rom_builds,
          random_start, i, oracle, calls, reports, result,
          md_pc, md_hash, md_difficulty, md_out,
          main_pc, reg, submissions,
          sh_n, sh_len, sh_sat, sh_cur, sh_wpc, sh_cancel, sh_winner>>

MdIdle ==
    /\ md_pc = "Idle"
    /\ md_hash = <<>>
    /\ md_difficulty = <<>>
    /\ md_out = [outcome |-> "none", reads |-> {}]

\* No session of main is running.
MainIdle ==
    /\ main_pc = "NoSession"
    /\ reg = "none"
    /\ submissions = <<>>

\* No sharded search is running.
ShardIdle ==
    /\ sh_n = 0
    /\ sh_len = 0
    /\ sh_sat = {}
    /\ sh_cur = <<>>
    /\ sh_wpc = <<>>
    /\ sh_cancel = FALSE
    /\ sh_winner = <<>>

\* mine_challenge has been called with (address, challenge, max_iterations).
Init ==
    /\ pc = "Initializing"
    /\ address \in Addresses
    /\ challenge \in Challenges
    /\ max_iterations \in 0..MaxIter
    /\ ctx = <<>>
    /\ rom_builds = 0
    /\ random_start = U64_zero
    /\ i = 0
    /\ oracle = {}
    /\ calls = <<>>
    /\ reports = <<>>
    /\ result = <<>>
    /\ MdIdle
    /\ MainIdle
    /\ ShardIdle

\* MiningContext::new panics slicing the seed for its banner.
InitializePanics ==
    /\ pc = "Initializing"
    /\ SeedSlicePanics(RomSeedOf(challenge))
    /\ pc' = "Panicked"
    /\ UNCHANGED <<address, challenge, max_iterations, ctx, rom_builds,
                   random_start, i, oracle, calls, reports, result>>
    /\ UNCHANGED <<mdVars, mainVars, shardVars>>

\* What becomes of the search when Rom::new does not return.  The call at
\* line 249 has no handler around it (MiningContext::new returns Self, not a
\* Result, and nothing catches an unwind): the failure leaves mine_challenge
\* as it is, a panic.
OnConstructionFailureMutNone == "Exhausted"
OnConstructionFailure == "Panicked"

\* Lines 249-261: MiningContext::new calls Rom::new, which builds the 1 GiB
\* ROM or fails (it panics or aborts when the memory cannot be had); then
\* the clock is read, and unwrap panics on a reading before the epoch, the
\* ROM already built.
Initialize ==
    /\ pc = "Initializing"
    /\ ~SeedSlicePanics(RomSeedOf(challenge))
    /\ rom_builds' = rom_builds + 1
    /\ \E built \in BOOLEAN, reading \in ClockReadings :
         IF ~built
         THEN /\ ctx' = ctx
              /\ random_start' = random_start
              /\ pc' = OnConstructionFailure
         ELSE /\ ctx' = <<MiningContext_new(RomSeedOf(challenge), NB_LOOPS,
                                            NB_INSTRS, rom_builds + 1)>>
              /\ IF reading.ok
                 THEN random_start' = reading.secs /\ pc' = "Searching"
                 ELSE random_start' = random_start /\ pc' = "Panicked"
    /\ UNCHANGED <<address, challenge, max_iterations, i, oracle, calls,
                   reports, result>>
    /\ UNCHANGED <<mdVars, mainVars, shardVars>>

\* ashmaize::hash is a pure function: an input seen before gives the digest
\* it gave before, a new one any digest.
OracleAllows(input, d) ==
    \A e \in oracle : e.input = input => e.digest = d

\* The loop's exit test: the range 0..max_iterations is not exhausted.
LoopContinuesMutOffByOne == i + 1 < max_iterations
LoopContinues == i < max_iterations

\* What the loop does after an attempt: return on a match, else go on.
AfterAttemptMutNoReturn(met) == "continue"
AfterAttempt(met) == IF met = "true" THEN "return" ELSE "continue"

\* One iteration of the loop, lines 263-294.
Attempt ==
    /\ pc = "Searching"
    /\ LoopContinues
    /\ \E nonce \in {wrapping_add(random_start, i)} :
       \E nonce_hex \in {format_016x(nonce)} :
       \E preimage \in {build_preimage(nonce_hex, address, challenge)} :
       \E input \in {HashInput(ctx[1], preimage)} :
           \E d \in DigestSamples :
             /\ OracleAllows(input, d)
             /\ oracle' = oracle \cup {[input |-> input, digest |-> d]}
             /\ calls' = Append(calls, [i |-> i, nonce_hex |-> nonce_hex,
                                        input |-> input, digest |-> d])
             /\ \E met \in {meets_difficulty(d, challenge.difficulty)} :
                    CASE met = "panic" ->
                           /\ pc' = "Panicked"
                           /\ UNCHANGED <<i, reports, result>>
                      [] met # "panic" /\ AfterAttempt(met) = "return" ->
                           /\ pc' = "Found"
                           /\ result' = <<nonce_hex>>
                           /\ reports' = Append(reports,
                                  [kind |-> "found", counter |-> i,
                                   attempts |-> Len(calls) + 1])
                           /\ UNCHANGED i
                      [] OTHER ->
                           /\ pc' = "Searching"
                           /\ i' = i + 1
                           /\ UNCHANGED result
                           /\ \E tick \in BOOLEAN :
                                reports' = IF tick
                                           THEN Append(reports,
                                                  [kind |-> "progress", counter |-> i,
                                                   attempts |-> Len(calls) + 1])
                                           ELSE reports
    /\ UNCHANGED <<address, challenge, max_iterations, ctx, rom_builds,
                   random_start>>
    /\ UNCHANGED <<mdVars, mainVars, shardVars>>

\* Lines 296-297: the range is exhausted.
Exhaust ==
    /\ pc = "Searching"
    /\ ~LoopContinues
    /\ pc' = "Exhausted"
    /\ result' = <<>>
    /\ UNCHANGED <<address, challenge, max_iterations, ctx, rom_builds,
                   random_start, i, oracle, calls, reports>>
    /\ UNCHANGED <<mdVars, mainVars, shardVars>>

Next == InitializePanics \/ Initialize \/ Attempt \/ Exhaust

Spec == Init /\ [][Next]_vars

\* mine_challenge is straight-line code with no suspension point: while a
\* step is possible the program takes one.
FairSpec == Spec /\ WF_vars(Next)

\* ------------------------------------- meets_difficulty called on its own
\* Digests of every length up to MaxHashLen and difficulty texts of up to
\* MaxDiffBytes hex pairs, well-formed or followed by a tail that makes the
\* text odd or puts a non-hex character in it.
ByteSamples == {15, 240}
PairSamples == {<<"0", "f">>, <<"F", "0">>}
Trailers == {<<>>, <<"0">>, <<"g", "0">>}

SeqsUpTo(S, n) == UNION {[1..m -> S] : m \in 0..n}

RECURSIVE Flatten(_)
Flatten(ss) == IF ss = <<>> THEN <<>> ELSE Head(ss) \o Flatten(Tail(ss))

HashInputs == SeqsUpTo(ByteSamples, MaxHashLen)
DiffInputs ==
    {Flatten(ps) \o t : ps \in SeqsUpTo(PairSamples, MaxDiffBytes), t \in Trailers}

SearchIdle ==
    /\ pc = "Idle"
    /\ address = <<>>
    /\ challenge = [challenge_id |-> <<>>, difficulty |-> <<>>,
                    no_pre_mine |-> <<>>, latest_submission |-> <<>>,
                    no_pre_mine_hour |-> <<>>]
    /\ max_iterations = 0
    /\ ctx = <<>>
    /\ rom_builds = 0
    /\ random_start = U64_zero
    /\ i = 0
    /\ oracle = {}
    /\ calls = <<>>
    /\ reports = <<>>
    /\ result = <<>>

InitEval ==
    /\ SearchIdle
    /\ MainIdle
    /\ ShardIdle
    /\ md_pc = "Call"
    /\ md_hash \in HashInputs
    /\ md_difficulty \in DiffInputs
    /\ md_out = [outcome |-> "none", reads |-> {}]

\* meets_difficulty(md_hash, md_difficulty) runs and returns (or panics).
Evaluate ==
    /\ md_pc = "Call"
    /\ md_out' = md_run(md_hash, md_difficulty)
    /\ md_pc' = "Returned"
    /\ UNCHANGED <<md_hash, md_difficulty>>
    /\ UNCHANGED <<searchVars, mainVars, shardVars>>

NextEval == Evaluate

SpecEval == InitEval /\ [][NextEval]_vars

\* =====================================================================
\* main: one session of the program
\* =====================================================================
BASE_URL == "https://scavenger.prod.gd.midnighttge.io"
PUBKEY_LEN == 64
DEFAULT_ITERATIONS == 100000

\* A line of input that is not UTF-8: read_line returns Err on it.
NotUtf8 == <<"<not UTF-8>">>

\* char::is_whitespace: the code points with the White_Space property.
WhiteSpace ==
    {"\t", "\n", "U+000B", "\f", "\r", " ", "U+0085", "U+00A0", "U+1680",
     "U+2000", "U+2001", "U+2002", "U+2003", "U+2004", "U+2005", "U+2006",
     "U+2007", "U+2008", "U+2009", "U+200A", "U+2028", "U+2029", "U+202F",
     "U+205F", "U+3000"}

\* str::trim: the text without its leading and trailing white space.
Trim(s) ==
    LET keep == {k \in 1..Len(s) : s[k] \notin WhiteSpace}
    IN  IF keep = {} THEN <<>>
        ELSE SubSeq(s, CHOOSE k \in keep : \A m \in keep : k <= m,
                       CHOOSE k \in keep : \A m \in keep : m <= k)

\* str::to_lowercase on the characters of the model: an ASCII capital goes
\* to its small letter, every other character of the model (digits, small
\* letters, signs, white space, U+00E9) is its own lowercase.
UpperChars ==
    <<"A", "B", "C", "D", "E", "F", "G", "H", "I", "J", "K", "L", "M",
      "N", "O", "P", "Q", "R", "S", "T", "U", "V", "W", "X", "Y", "Z">>
LowerChars ==
    <<"a", "b", "c", "d", "e", "f", "g", "h", "i", "j", "k", "l", "m",
      "n", "o", "p", "q", "r", "s", "t", "u", "v", "w", "x", "y", "z">>
to_lowercase(s) ==
    [k \in 1..Len(s) |->
        IF \E q \in 1..Len(UpperChars) : UpperChars[q] = s[k]
        THEN LowerChars[CHOOSE q \in 1..Len(UpperChars) : UpperChars[q] = s[k]]
        ELSE s[k]]

\* input.trim().to_lowercase() == "y"
WantsRegister(input) == to_lowercase(Trim(input)) = <<"y">>

\* acc.checked_mul(10) and checked_add(d) on a u64: what n * 10 + d carries
\* into nibble pos (pos = 0: out of the u64, an overflow).
RECURSIVE MulCarryInto(_, _, _)
MulCarryInto(n, pos, d) ==
    IF pos = Len(n) THEN d
    ELSE (n[pos + 1] * 10 + MulCarryInto(n, pos + 1, d)) \div 16
checked_mul10_add(n, d) ==
    [ok |-> MulCarryInto(n, 0, d) = 0,
     value |-> [k \in 1..Len(n) |-> (n[k] * 10 + MulCarryInto(n, k, d)) % 16]]

\* str::parse::<u64>: one optional "+", then one or more decimal digits
\* whose value fits a u64; Err on anything else.
DecDigits == {"0", "1", "2", "3", "4", "5", "6", "7", "8", "9"}
RECURSIVE ParseDigitsFrom(_, _, _)
ParseDigitsFrom(s, k, acc) ==
    IF k > Len(s) THEN [ok |-> TRUE, value |-> acc]
    ELSE IF s[k] \notin DecDigits THEN [ok |-> FALSE, value |-> U64_zero]
    ELSE IF ~checked_mul10_add(acc, HexVal(s[k])).ok
         THEN [ok |-> FALSE, value |-> U64_zero]
    ELSE ParseDigitsFrom(s, k + 1, checked_mul10_add(acc, HexVal(s[k])).value)
parse_u64(s) ==
    LET digits == IF s # <<>> /\ s[1] = "+" THEN Tail(s) ELSE s
    IN  IF digits = <<>> THEN [ok |-> FALSE, value |-> U64_zero]
        ELSE ParseDigitsFrom(digits, 1, U64_zero)

\* The number a u64 stands for (the first k nibbles of it).
RECURSIVE U64Val(_, _)
U64Val(n, k) == IF k = 0 THEN 0 ELSE U64Val(n, k - 1) * 16 + n[k]

\* iterations_input.trim().parse().unwrap_or(100_000)
ReadIterations(line) ==
    LET r == parse_u64(Trim(line))
    IN  IF r.ok THEN U64Val(r.value, Len(r.value)) ELSE DEFAULT_ITERATIONS

\* interactive_register: Err when the terms cannot be fetched, when the
\* signature or the public key cannot be read, when the public key typed is
\* not 64 bytes long after trim, or when the server refuses the
\* registration; Ok otherwise.
interactive_register(terms_ok, signature_line, pubkey_line, register_ok) ==
    IF ~terms_ok THEN "Err"
    ELSE IF signature_line = NotUtf8 THEN "Err"
    ELSE IF pubkey_line = NotUtf8 THEN "Err"
    ELSE IF ByteLen(Trim(pubkey_line)) # PUBKEY_LEN THEN "Err"
    ELSE IF ~register_ok THEN "Err"
    ELSE "Ok"

\* Where main goes after the match on interactive_register's result: both
\* arms print and fall through to the challenge fetch.
AfterRegisterMutPropagate(outcome) == IF outcome = "Err" THEN "Failed" ELSE "Fetching"
AfterRegister(outcome) == "Fetching"

\* `api.get_challenge().await?`: an error ends main.
AfterFetch(ok) == IF ok THEN "AskIterations" ELSE "Failed"

\* The request submit_solution sends for its three arguments.
submit_solutionMutOrder(addr, challenge_id, nonce) ==
    [address |-> addr, challenge_id |-> challenge_id, nonce |-> nonce,
     url |-> <<BASE_URL, "/", "solution", "/">> \o addr \o <<"/">>
             \o nonce \o <<"/">> \o challenge_id]
submit_solution(addr, challenge_id, nonce) ==
    [address |-> addr, challenge_id |-> challenge_id, nonce |-> nonce,
     url |-> <<BASE_URL, "/", "solution", "/">> \o addr \o <<"/">>
             \o challenge_id \o <<"/">> \o nonce]

\* What the user types.
AddressLines == {Txt_addrX \o <<"\n">>, <<" ", "\n">>, NotUtf8}
AnswerLines ==
    {<<"y", "\n">>, <<" ", "Y", "\n">>, <<"\f", "y", "\n">>, <<"n", "\n">>,
     <<"y", "e", "s", "\n">>, <<"\n">>, NotUtf8}
SignatureLines == {<<"s", "i", "g", "\n">>, NotUtf8}
PubkeyLines ==
    { [k \in 1..PUBKEY_LEN |-> "a"] \o <<"\n">>,
      <<"\f">> \o [k \in 1..PUBKEY_LEN |-> "a"] \o <<"\n">>,
      [k \in 1..(PUBKEY_LEN - 1) |-> "a"] \o <<"\n">>,
      NotUtf8 }
\* Budget lines: the numerals 0..MaxIter, a numeral with a sign and white
\* space around it, and a line that cannot be read.  Lines that ask for more
\* than MaxIter attempts (a line that is no numeral asks for 100_000) are
\* not among them: a session is followed through searches of at most
\* MaxIter attempts.
IterationLines ==
    {<<HexChars[n + 1], "\n">> : n \in 0..MaxIter}
        \cup { <<" ", "+", "1", "\t", "\n">>, NotUtf8 }

\* main has been started: nothing read, nothing sent.
InitMain ==
    /\ SearchIdle
    /\ MdIdle
    /\ ShardIdle
    /\ main_pc = "Start"
    /\ reg = "none"
    /\ submissions = <<>>

\* Lines 381-389: the HTTP client is built and the address is read; an
\* error of either ends main.
SessionStart ==
    /\ main_pc = "Start"
    /\ \E client_ok \in BOOLEAN, line \in AddressLines :
         IF client_ok /\ line # NotUtf8
         THEN address' = Trim(line) /\ main_pc' = "AskRegister"
         ELSE address' = address /\ main_pc' = "Failed"
    /\ UNCHANGED <<pc, challenge, max_iterations, ctx, rom_builds,
                   random_start, i, oracle, calls, reports, result>>
    /\ UNCHANGED <<reg, submissions, mdVars, shardVars>>

\* Lines 392-406: the answer to "register?" is read; an error of the read
\* ends main.
AskRegister ==
    /\ main_pc = "AskRegister"
    /\ \E answer \in AnswerLines :
         IF answer = NotUtf8
         THEN main_pc' = "Failed" /\ reg' = reg
         ELSE IF WantsRegister(answer)
         THEN main_pc' = "Registering" /\ reg' = reg
         ELSE main_pc' = "Fetching" /\ reg' = "skipped"
    /\ UNCHANGED <<searchVars, submissions, mdVars, shardVars>>

\* Lines 396-403: interactive_register runs and main matches on its result.
Register ==
    /\ main_pc = "Registering"
    /\ \E terms_ok \in BOOLEAN, signature_line \in SignatureLines,
          pubkey_line \in PubkeyLines, register_ok \in BOOLEAN :
       \E outcome \in {interactive_register(terms_ok, signature_line,
                                            pubkey_line, register_ok)} :
         /\ reg' = IF outcome = "Ok" THEN "ok" ELSE "failed"
         /\ main_pc' = AfterRegister(outcome)
    /\ UNCHANGED <<searchVars, submissions, mdVars, shardVars>>

\* Line 413: the challenge is fetched, or the fetch fails and main returns
\* the error.
FetchChallenge ==
    /\ main_pc = "Fetching"
    /\ \/ /\ \E c \in Challenges : challenge' = c
          /\ main_pc' = AfterFetch(TRUE)
       \/ /\ challenge' = challenge
          /\ main_pc' = AfterFetch(FALSE)
    /\ UNCHANGED <<pc, address, max_iterations, ctx, rom_builds,
                   random_start, i, oracle, calls, reports, result>>
    /\ UNCHANGED <<reg, submissions, mdVars, shardVars>>

\* Lines 432-443: the budget is read (an error of the read ends main) and
\* mine_challenge is called with the address, the fetched Challenge and the
\* budget.
StartMining ==
    /\ main_pc = "AskIterations"
    /\ \E line \in IterationLines :
         IF line = NotUtf8
         THEN /\ main_pc' = "Failed"
              /\ UNCHANGED <<pc, max_iterations>>
         ELSE /\ max_iterations' = ReadIterations(line)
              /\ pc' = "Initializing"
              /\ main_pc' = "Mining"
    /\ UNCHANGED <<address, challenge, ctx, rom_builds,
                   random_start, i, oracle, calls, reports, result>>
    /\ UNCHANGED <<reg, submissions, mdVars, shardVars>>

\* Lines 439-476: mine_challenge has returned; Some(nonce) is submitted (an
\* error of the request ends main), None is not.
MineReturns ==
    /\ main_pc = "Mining"
    /\ pc \in {"Found", "Exhausted"}
    /\ IF result # <<>>
       THEN /\ submissions' = Append(submissions,
                 submit_solution(address, challenge.challenge_id, result[1]))
            /\ \E response \in {"receipt", "no receipt", "error"} :
                 main_pc' = IF response = "error" THEN "Failed" ELSE "Complete"
       ELSE /\ submissions' = submissions
            /\ main_pc' = "Complete"
    /\ UNCHANGED <<searchVars, reg, mdVars, shardVars>>

\* A panic inside mine_challenge unwinds through main.
MinePanics ==
    /\ main_pc = "Mining"
    /\ pc = "Panicked"
    /\ main_pc' = "Panicked"
    /\ UNCHANGED <<searchVars, reg, submissions, mdVars, shardVars>>

NextMain ==
    \/ SessionStart
    \/ AskRegister
    \/ Register
    \/ FetchChallenge
    \/ StartMining
    \/ Next
    \/ MineReturns
    \/ MinePanics

SpecMain == InitMain /\ [][NextMain]_vars

\* =====================================================================
\* The sharded search of the specification (sections 4.3 and 5): N workers
\* over one nonce range, one Challenge and one immutable work-memory.  The
\* repository has no code for it; the model follows the specification.
\* =====================================================================
MaxWorkers == 3       \* most workers a sharded search is started with
MaxRange == 4         \* longest nonce range a sharded search is started on

\* Worker k visits seed + k, seed + k + N, seed + k + 2N, ...  Nonces are
\* written as offsets from the seed.
FirstOffsetMutSkipsZero(k) == k + 1
FirstOffset(k) == k
NextOffset(cur, n) == cur + n

\* A sharded search of sh_n workers starts on the range of sh_len nonces.
\* The oracle is a pure function and the Challenge is fixed, so whether the
\* nonce at an offset satisfies the difficulty is settled from the start:
\* sh_sat is the set of offsets that do.
InitShard ==
    /\ SearchIdle
    /\ MdIdle
    /\ MainIdle
    /\ sh_n \in 1..MaxWorkers
    /\ sh_len \in 0..MaxRange
    /\ sh_sat \in SUBSET (0..(sh_len - 1))
    /\ sh_cur = [k \in 0..(sh_n - 1) |-> FirstOffset(k)]
    /\ sh_wpc = [k \in 0..(sh_n - 1) |-> "check"]
    /\ sh_cancel = FALSE
    /\ sh_winner = <<>>

\* Between attempts worker k looks at the cancellation flag and at the end
\* of the range.
WorkerCheck(k) ==
    /\ sh_wpc[k] = "check"
    /\ sh_wpc' = [sh_wpc EXCEPT ![k] =
                     IF sh_cancel \/ sh_cur[k] >= sh_len THEN "done"
                     ELSE "attempt"]
    /\ UNCHANGED <<sh_n, sh_len, sh_sat, sh_cur, sh_cancel, sh_winner>>
    /\ UNCHANGED <<searchVars, mdVars, mainVars>>

\* Worker k hashes the nonce at its cursor and evaluates the digest: on a
\* match it signals cancellation, and its nonce is the result if no worker
\* has won before; otherwise it moves its cursor one stride on.
WorkerAttempt(k) ==
    /\ sh_wpc[k] = "attempt"
    /\ IF sh_cur[k] \in sh_sat
       THEN /\ sh_winner' = IF sh_winner = <<>> THEN <<sh_cur[k]>> ELSE sh_winner
            /\ sh_cancel' = TRUE
            /\ sh_wpc' = [sh_wpc EXCEPT ![k] = "done"]
            /\ UNCHANGED sh_cur
       ELSE /\ sh_cur' = [sh_cur EXCEPT ![k] = NextOffset(sh_cur[k], sh_n)]
            /\ sh_wpc' = [sh_wpc EXCEPT ![k] = "check"]
            /\ UNCHANGED <<sh_winner, sh_cancel>>
    /\ UNCHANGED <<sh_n, sh_len, sh_sat>>
    /\ UNCHANGED <<searchVars, mdVars, mainVars>>

NextShard == \E k \in 0..(sh_n - 1) : WorkerCheck(k) \/ WorkerAttempt(k)

SpecShard == InitShard /\ [][NextShard]_vars

\* =====================================================================
\* Properties
\* =====================================================================

\* The first min(k, Len(s)) elements of s.
Take(s, k) == SubSeq(s, 1, Min(k, Len(s)))

\* a <= b in the lexicographic order of two byte strings of one length.
LexLeq(a, b) ==
    \/ \A j \in 1..Len(a) : a[j] = b[j]
    \/ \E j \in 1..Len(a) : a[j] < b[j] /\ \A m \in 1..(j - 1) : a[m] = b[m]

\* a < b in the lexicographic order of byte strings (a proper prefix of b is
\* less than b).
LexLess(a, b) ==
    \/ \E j \in 1..Min(Len(a), Len(b)) :
          a[j] < b[j] /\ \A m \in 1..(j - 1) : a[m] = b[m]
    \/ Len(a) < Len(b) /\ \A m \in 1..Len(a) : a[m] = b[m]

\* A text hex::decode accepts: an even number of characters, each a hex digit.
HexDigitChars ==
    {"0", "1", "2", "3", "4", "5", "6", "7", "8", "9",
     "a", "b", "c", "d", "e", "f", "A", "B", "C", "D", "E", "F"}
IsHexText(s) == Len(s) % 2 = 0 /\ \A k \in 1..Len(s) : s[k] \in HexDigitChars

\* The decoded difficulty T of the call at hand and the number k of compared bytes.
MdTarget == hex_decode(md_difficulty).bytes
MdK == Min(4, Len(MdTarget))

\* C1: for a difficulty that decodes to bytes T and a digest D of at least
\* k = min(4, len(T)) bytes, meets_difficulty(D, difficulty) is true exactly
\* when the first k bytes of D are lexicographically <= the first k bytes of
\* T (unsigned bytes, index 0 most significant); nothing past index k-1 counts.
C1_MeetsIffPrefixLeq ==
    (md_pc = "Returned" /\ IsHexText(md_difficulty) /\ Len(md_hash) >= MdK)
    => /\ md_out.outcome \in {"true", "false"}
       /\ md_out.outcome = "true" <=> LexLeq(Take(md_hash, MdK), Take(MdTarget, MdK))

\* A 5-byte digest equal to a 5-byte target on bytes 0..2, less on byte 3 and
\* greater on byte 4 has been accepted.
C1_Witness ==
    /\ md_pc = "Returned"
    /\ md_difficulty = <<"0", "f", "F", "0", "0", "f", "F", "0", "0", "f">>
    /\ md_hash = <<15, 240, 15, 15, 240>>
    /\ md_out.outcome = "true"

\* C8 (as claimed): for a decodable difficulty, a digest shorter than the
\* k = min(4, len(T)) compared bytes is always rejected.
C8_ShortDigestRejected ==
    (md_pc = "Returned" /\ IsHexText(md_difficulty) /\ Len(md_hash) < MdK)
    => md_out.outcome = "false"

\* C9: whatever the digest and the difficulty text, meets_difficulty reads
\* only indices below the decoded length, below the digest's length and
\* below 4, and does not panic; an undecodable difficulty is read nowhere.
C9_ReadsInBounds ==
    md_pc = "Returned"
    => /\ md_out.outcome \in {"true", "false"}
       /\ \A r \in md_out.reads :
             /\ IsHexText(md_difficulty)
             /\ 0 <= r /\ r < Len(md_difficulty) \div 2
             /\ r < Len(md_hash)
             /\ r < 4

\* A 2-byte difficulty equal to the first two bytes of a longer digest: both
\* indices were read and the call returned true.
C9_Witness ==
    /\ md_pc = "Returned"
    /\ md_difficulty = <<"0", "f", "F", "0">>
    /\ md_hash = <<15, 240, 240, 240, 240>>
    /\ md_out.reads = {0, 1}
    /\ md_out.outcome = "true"

\* C10 (as claimed): if the digest at hand satisfies the difficulty, so does
\* every digest that is lexicographically less over the compared prefix.
C10_MonotoneAnyDigests ==
    (md_pc = "Returned" /\ md_out.outcome = "true")
    => \A d1 \in HashInputs :
          LexLess(Take(d1, MdK), Take(md_hash, MdK))
          => meets_difficulty(d1, md_difficulty) = "true"

\* C10 (amended): the same for every smaller digest that has at least the
\* k = min(4, len(T)) compared bytes.
C10_MonotoneLongEnough ==
    (md_pc = "Returned" /\ md_out.outcome = "true")
    => \A d1 \in HashInputs :
          (Len(d1) >= MdK /\ LexLess(Take(d1, MdK), Take(md_hash, MdK)))
          => meets_difficulty(d1, md_difficulty) = "true"

\* A digest equal to the target on its 4 compared bytes has been accepted, and
\* so is the digest that differs from it only by a smaller byte 3.
C10_Witness ==
    /\ md_pc = "Returned"
    /\ md_difficulty = <<"F", "0", "0", "f", "F", "0", "F", "0">>
    /\ md_hash = <<240, 15, 240, 240>>
    /\ md_out.outcome = "true"
    /\ <<240, 15, 240, 15>> \in HashInputs
    /\ meets_difficulty(<<240, 15, 240, 15>>, md_difficulty) = "true"

\* ---------------------------------------------------- the search, Spec

\* Whether the digest of a recorded hash call satisfies the difficulty.
Met(call) == meets_difficulty(call.digest, challenge.difficulty) = "true"

\* The nonce text at the head of a hashed preimage, and the u64 it denotes.
NonceText(call) == SubSeq(call.input.preimage, 1, 16)
ParseNibbles(t) == [k \in 1..Len(t) |-> HexVal(t[k])]

\* n + 1 mod 2^64 on 16 hex digits: the last digit that is not f goes up by
\* one and the f's after it become 0; all f's become all 0's.
Succ(n) ==
    LET notF == {q \in 1..Len(n) : n[q] # 15}
    IN  IF notF = {} THEN [q \in 1..Len(n) |-> 0]
        ELSE LET m == CHOOSE q \in notF : \A r \in notF : r <= q
             IN  [q \in 1..Len(n) |->
                     IF q < m THEN n[q] ELSE IF q = m THEN n[q] + 1 ELSE 0]

RECURSIVE SuccN(_, _)
SuccN(n, k) == IF k = 0 THEN n ELSE Succ(SuccN(n, k - 1))

Returned == pc \in {"Found", "Exhausted"}

\* C2: a satisfying attempt is always the last attempt made (nothing is
\* encoded or hashed after it, and no earlier attempt satisfied), the search
\* is then Found, and the value returned is the 16-character nonce text at
\* the head of the winning preimage; Found is reached in no other way.
C2_FirstMatchReturned ==
    /\ \A k \in 1..Len(calls) :
          Met(calls[k])
          => /\ k = Len(calls)
             /\ pc = "Found"
             /\ result = <<NonceText(calls[k])>>
             /\ Len(result[1]) = 16
             /\ calls[k].i = k - 1
    /\ pc = "Found" => (Len(calls) >= 1 /\ Met(calls[Len(calls)]))

\* The third attempt was the first to satisfy the difficulty.
C2_Witness ==
    /\ pc = "Found"
    /\ Len(calls) = 3
    /\ ~Met(calls[1]) /\ ~Met(calls[2])

\* C3: the search returns None exactly when no attempt satisfied the
\* difficulty, and then exactly max_iterations hash attempts were made; the
\* outcome is the ordinary return value None (state Exhausted), not a panic.
C3_ExhaustedIffNoMatch ==
    /\ pc = "Exhausted"
       => /\ result = <<>>
          /\ Len(calls) = max_iterations
          /\ \A k \in 1..Len(calls) : ~Met(calls[k])
    /\ pc = "Found"
       => /\ result # <<>>
          /\ \E k \in 1..Len(calls) : Met(calls[k])
    /\ (Len(calls) = max_iterations /\ pc # "Searching"
        /\ \A k \in 1..Len(calls) : ~Met(calls[k]))
       => pc \in {"Exhausted", "Initializing", "Panicked"}
    /\ pc = "Panicked" => calls = <<>>

\* A search of two or more attempts ended Exhausted.
C3_Witness ==
    /\ pc = "Exhausted"
    /\ max_iterations >= 2
    /\ Len(calls) = max_iterations

\* C4: the k-th attempt (k = 1, 2, ...) hashes a preimage whose nonce is
\* seed + (k - 1) mod 2^64, so the nonces are seed, seed + 1, ... in order,
\* without repeats or gaps, across the wrap at 2^64; an exhausted search has
\* visited exactly max_iterations of them.
C4_NonceSequence ==
    /\ \A k \in 1..Len(calls) :
          /\ ParseNibbles(NonceText(calls[k])) = SuccN(random_start, k - 1)
          /\ \A j \in 1..(k - 1) : NonceText(calls[j]) # NonceText(calls[k])
    /\ pc = "Exhausted" => Len(calls) = max_iterations

\* An exhausted search from seed 2^64 - 1: the second nonce is 0.
C4_Witness ==
    /\ pc = "Exhausted"
    /\ random_start = U64_max
    /\ Len(calls) >= 2
    /\ NonceText(calls[2]) = [k \in 1..16 |-> "0"]

\* Whether text f stands in p right after the first off characters.
FieldAt(p, off, f) == SubSeq(p, off + 1, off + Len(f)) = f

LowerHexChars ==
    {"0", "1", "2", "3", "4", "5", "6", "7", "8", "9", "a", "b", "c", "d", "e", "f"}

\* C5: every hashed preimage is, in this order and with nothing in between,
\* before or after: the attempt's nonce as 16 lowercase hex digits (zero
\* padded, no 0x), the identity, challenge_id, the difficulty text as given,
\* no_pre_mine, latest_submission, no_pre_mine_hour; equal nonces give equal
\* preimages.
C5_PreimageLayout ==
    \A k \in 1..Len(calls) :
       LET p == calls[k].input.preimage
           nonce == SuccN(random_start, calls[k].i)
           o1 == 16
           o2 == o1 + Len(address)
           o3 == o2 + Len(challenge.challenge_id)
           o4 == o3 + Len(challenge.difficulty)
           o5 == o4 + Len(challenge.no_pre_mine)
           o6 == o5 + Len(challenge.latest_submission)
           o7 == o6 + Len(challenge.no_pre_mine_hour)
       IN  /\ Len(p) = o7
           /\ \A q \in 1..16 :
                 p[q] \in LowerHexChars /\ HexVal(p[q]) = nonce[q]
           /\ FieldAt(p, o1, address)
           /\ FieldAt(p, o2, challenge.challenge_id)
           /\ FieldAt(p, o3, challenge.difficulty)
           /\ FieldAt(p, o4, challenge.no_pre_mine)
           /\ FieldAt(p, o5, challenge.latest_submission)
           /\ FieldAt(p, o6, challenge.no_pre_mine_hour)
           /\ \A j \in 1..Len(calls) :
                 NonceText(calls[j]) = NonceText(calls[k])
                 => calls[j].input.preimage = p

\* The spec's scenario: seed 0, difficulty 00ffffffff; the first preimage is
\* 0000000000000000addrXc100ffffffffseedAls1h1.
C5_Witness ==
    /\ Len(calls) >= 1
    /\ address = Txt_addrX
    /\ calls[1].input.preimage =
         <<"0", "0", "0", "0", "0", "0", "0", "0",
           "0", "0", "0", "0", "0", "0", "0", "0",
           "a", "d", "d", "r", "X", "c", "1",
           "0", "0", "f", "f", "f", "f", "f", "f", "f", "f",
           "s", "e", "e", "d", "A", "l", "s", "1", "h", "1">>

\* C6: the ROM is built once, before the first hash attempt, from the
\* no_pre_mine of the Challenge whose fields are in the preimages; every
\* attempt hashes against that one instance, which stays as built.
C6_OneRomPerSearch ==
    /\ pc = "Initializing" => (rom_builds = 0 /\ calls = <<>> /\ ctx = <<>>)
    /\ pc \in {"Searching", "Found", "Exhausted"}
       => /\ rom_builds = 1
          /\ Len(ctx) = 1
          /\ ctx[1].rom.seed = challenge.no_pre_mine
          /\ ctx[1].rom.instance = 1
    /\ \A k \in 1..Len(calls) :
          /\ calls[k].input.rom = ctx[1].rom
          /\ FieldAt(calls[k].input.preimage,
                     16 + Len(address) + Len(challenge.challenge_id)
                        + Len(challenge.difficulty),
                     calls[k].input.rom.seed)

\* Three attempts have hashed against the ROM built from no_pre_mine.
C6_Witness ==
    /\ Len(calls) = 3
    /\ rom_builds = 1
    /\ calls[3].input.rom.seed = Txt_seedA

\* With a difficulty that does not decode as hex: meets_difficulty is false
\* for every digest, no attempt made has satisfied it, nothing is returned
\* but None, and an exhausted search has made max_iterations attempts.
UndecodableSafe ==
    ~IsHexText(challenge.difficulty)
    => /\ \A d \in DigestSamples :
             meets_difficulty(d, challenge.difficulty) = "false"
       /\ pc # "Found"
       /\ result = <<>>
       /\ \A k \in 1..Len(calls) : ~Met(calls[k])
       /\ pc = "Searching" => (Len(calls) = i /\ i <= max_iterations)
       /\ pc = "Exhausted" => Len(calls) = max_iterations

\* C7: with a difficulty that does not decode as hex, meets_difficulty is
\* false for every digest and never panics, so the search never reaches
\* Found, and once searching it ends Exhausted with None after exactly
\* max_iterations attempts.
C7_UndecodableExhausts ==
    /\ []UndecodableSafe
    /\ (~IsHexText(challenge.difficulty) /\ pc = "Searching")
          ~> (pc = "Exhausted" /\ Len(calls) = max_iterations /\ result = <<>>)

\* A search over the difficulty text "0g" has ended Exhausted after at least
\* two attempts, one of them on the all-zero digest.
C7_Witness ==
    /\ challenge.difficulty = <<"0", "g">>
    /\ pc = "Exhausted"
    /\ Len(calls) >= 2
    /\ \E k \in 1..Len(calls) : calls[k].digest = Digest64(<<0, 0, 0, 0>>)

\* C11 (as claimed): a search called with max_iterations = 0 returns None
\* having invoked neither the work-memory construction (Rom::new) nor the
\* digest function.
C11_ZeroBudgetNoOracle ==
    (max_iterations = 0 /\ pc = "Exhausted")
    => (rom_builds = 0 /\ ctx = <<>> /\ calls = <<>>)

\* What one search must leave alone from one step to the next.
SearchFrame ==
    /\ address' = address
    /\ challenge' = challenge
    /\ max_iterations' = max_iterations
    /\ random_start' = random_start
    /\ ctx' = ctx
    /\ rom_builds' = rom_builds

\* C14: during a search every attempt leaves the Challenge, the address, the
\* budget, the seed and the context as they were; every hash call is made
\* with loop count 8 and instruction count 256 against the one context; an
\* attempt changes only the loop index (and with it the nonce) and the
\* progress report's clock, and adds to the record of calls and reports.
C14_AttemptFrame ==
    /\ [](\A k \in 1..Len(calls) :
            /\ calls[k].input.nb_loops = 8
            /\ calls[k].input.nb_instrs = 256
            /\ calls[k].input.rom = ctx[1].rom
            /\ calls[k].i = k - 1)
    /\ [][pc = "Searching"
          => /\ SearchFrame
             /\ i' \in {i, i + 1}
             /\ Len(calls') \in {Len(calls), Len(calls) + 1}
             /\ SubSeq(calls', 1, Len(calls)) = calls
             /\ SubSeq(reports', 1, Len(reports)) = reports]_vars

\* A search is at its third attempt, two made and at least one progress
\* report printed.
C14_Witness ==
    /\ pc = "Searching"
    /\ i = 2
    /\ Len(calls) = 2
    /\ Len(reports) >= 1
    /\ calls[1].input.nb_loops = 8

\* C16 (as claimed): a search is in Initializing or Searching until it ends,
\* ends only in Found or Exhausted, and has made at most max_iterations hash
\* attempts.
C16_EndsFoundOrExhausted ==
    /\ pc \in {"Initializing", "Searching", "Found", "Exhausted"}
    /\ Len(calls) <= max_iterations

\* C17 (as claimed): the attempt counter of every progress report and of the
\* rate printed on success is the number of attempts hashed and evaluated
\* so far.
C17_CounterIsAttemptsCompleted ==
    \A r \in 1..Len(reports) : reports[r].counter = reports[r].attempts

\* The u64 values a search can visit: the clock readings and what follows.
NonceSamples == {SuccN(s, k) : s \in SeedSamples, k \in 0..MaxIter}

\* C18: the text of every 64-bit nonce has exactly 16 characters and two
\* distinct nonces give distinct texts and, with one address and Challenge,
\* distinct preimages (checked for the Challenge and address of each call of
\* mine_challenge); so no two attempts of one search hash the same preimage,
\* across the wrap at 2^64 too.
C18_NonceTextInjective ==
    /\ pc = "Initializing"
       => /\ \A n \in NonceSamples : Len(format_016x(n)) = 16
          /\ \A n1, n2 \in NonceSamples :
                n1 # n2
                => /\ format_016x(n1) # format_016x(n2)
                   /\ build_preimage(format_016x(n1), address, challenge)
                      # build_preimage(format_016x(n2), address, challenge)
    /\ \A k \in 1..Len(calls) :
          /\ Len(calls[k].nonce_hex) = 16
          /\ \A j \in 1..(k - 1) :
                calls[j].input.preimage # calls[k].input.preimage

\* Three attempts from seed 2^64 - 2 (nonces fffffffffffffffe,
\* ffffffffffffffff, 0000000000000000) have hashed three different preimages.
C18_Witness ==
    /\ random_start = U64_max_less_1
    /\ Len(calls) = 3
    /\ calls[1].nonce_hex[16] = "e"
    /\ calls[3].nonce_hex = [k \in 1..16 |-> "0"]
    /\ calls[1].input.preimage # calls[3].input.preimage

\* C12: submit_solution is called at most once in a session, only after the
\* search has returned Some(nonce); its arguments are the address the search
\* ran with, the challenge_id of the Challenge searched and the returned
\* nonce text as it is (the 16 characters of the satisfying attempt), and
\* they stand in this order in the request's path; after None (Exhausted),
\* and after a panic, nothing is submitted.
C12_SubmitsWhatWasFound ==
    /\ Len(submissions) <= 1
    /\ pc # "Found" => submissions = <<>>
    /\ main_pc \in {"Start", "AskRegister", "Registering", "Fetching",
                    "AskIterations", "Mining"}
       => submissions = <<>>
    /\ submissions # <<>>
       => /\ result # <<>>
          /\ Met(calls[Len(calls)])
          /\ result[1] = NonceText(calls[Len(calls)])
          /\ submissions[1].nonce = result[1]
          /\ submissions[1].address = address
          /\ submissions[1].challenge_id = challenge.challenge_id
          /\ submissions[1].url
             = <<BASE_URL, "/", "solution", "/">> \o address \o <<"/">>
               \o challenge.challenge_id \o <<"/">> \o result[1]

\* A session has submitted the nonce its search found at the second attempt
\* or later, for the address "addrX".
C12_Witness ==
    /\ main_pc = "Complete"
    /\ Len(submissions) = 1
    /\ Len(calls) >= 2
    /\ address = Txt_addrX
    /\ submissions[1].nonce = calls[Len(calls)].nonce_hex

\* Rom::new has been called and has given no ROM: the construction of the
\* work-memory failed.
ConstructionFailed == rom_builds > Len(ctx)

\* C13: when Rom::new fails, the round is over at once: no hash call has
\* been or will be made, Rom::new is not called again, and the caller of
\* mine_challenge does not get None (Exhausted) but the panic, which ends
\* main too: main neither completes nor submits.
C13_ConstructionFailureAborts ==
    /\ [](ConstructionFailed
          => /\ pc = "Panicked"
             /\ rom_builds = 1
             /\ ctx = <<>>
             /\ calls = <<>>
             /\ oracle = {}
             /\ i = 0
             /\ reports = <<>>
             /\ result = <<>>
             /\ submissions = <<>>
             /\ main_pc \in {"Mining", "Panicked"})
    /\ [](main_pc = "Complete" => (~ConstructionFailed /\ pc \in {"Found", "Exhausted"}))
    /\ [][ConstructionFailed
          => /\ UNCHANGED <<searchVars, reg, submissions>>
             /\ main_pc' = "Panicked"]_vars

\* A session whose search could not build its ROM (the seed "seedA" slices
\* cleanly) has ended by the panic, no hash call made.
C13_Witness ==
    /\ ConstructionFailed
    /\ pc = "Panicked"
    /\ main_pc = "Panicked"
    /\ challenge.no_pre_mine = Txt_seedA
    /\ max_iterations >= 1
    /\ reg = "ok"

\* C19: once registration has been asked for or declined, main always comes
\* to the challenge fetch, whether registration was skipped, succeeded or
\* failed (main ends before the fetch only when the client cannot be built
\* or a line cannot be read, registration not yet run); mine_challenge is
\* called only with a Challenge that was fetched; a failed fetch ends main
\* with no search started and nothing submitted, for good.
C19_RegistrationNeverEndsSession ==
    /\ [](/\ main_pc \in {"Start", "AskRegister", "Registering"} => reg = "none"
          /\ reg = "none"
             => main_pc \in {"Start", "AskRegister", "Registering", "Failed"}
          /\ main_pc \in {"Start", "AskRegister", "Registering", "Fetching",
                          "AskIterations"}
             => (pc = "Idle" /\ calls = <<>> /\ rom_builds = 0)
          /\ pc # "Idle"
             => (challenge \in Challenges /\ reg \in {"skipped", "ok", "failed"})
          /\ (main_pc = "Failed" /\ pc = "Idle")
             => (calls = <<>> /\ rom_builds = 0 /\ submissions = <<>>))
    /\ [][/\ main_pc = "AskRegister"
             => \/ main_pc' = "Registering" /\ reg' = "none"
                \/ main_pc' = "Fetching" /\ reg' = "skipped"
                \/ main_pc' = "Failed" /\ reg' = "none"
          /\ main_pc = "Registering"
             => (main_pc' = "Fetching" /\ reg' \in {"ok", "failed"})
          /\ main_pc = "Fetching"
             => \/ main_pc' = "AskIterations" /\ challenge' \in Challenges
                \/ main_pc' = "Failed" /\ pc' = "Idle"
          /\ (pc = "Idle" /\ pc' # "Idle")
             => (main_pc = "AskIterations" /\ challenge \in Challenges
                 /\ challenge' = challenge)
          /\ main_pc = "Failed" => UNCHANGED vars]_vars

\* A session whose registration failed is mining, one attempt made.
C19_Witness ==
    /\ reg = "failed"
    /\ main_pc = "Mining"
    /\ pc = "Searching"
    /\ Len(calls) >= 1

\* What one sequential pass over the offsets 0, 1, ... of the range returns
\* (mine_challenge with max_iterations = sh_len): the first satisfying one.
SequentialResult ==
    IF sh_sat = {} THEN <<>>
    ELSE <<CHOOSE o \in sh_sat : \A q \in sh_sat : o <= q>>

ShardDone == \A k \in 0..(sh_n - 1) : sh_wpc[k] = "done"

\* The satisfying offsets of the stride of the worker that visits offset o.
StrideSat(o) == {q \in sh_sat : q % sh_n = o % sh_n}

\* C15 (as claimed): when all workers have stopped, the result of the
\* sharded search is the result of the sequential pass over the range.
C15_ShardedEqualsSequential ==
    ShardDone => sh_winner = SequentialResult

\* C15 (amended): each worker stays in its own stride; when all workers have
\* stopped, the sharded search has a result exactly when the sequential pass
\* has one, the result satisfies the difficulty and is the first satisfying
\* nonce of its worker's stride, and it is the sequential pass's result
\* whenever all satisfying nonces of the range lie in one stride.
C15_ShardedFindsASolution ==
    /\ \A k \in 0..(sh_n - 1) : sh_cur[k] % sh_n = k
    /\ sh_winner # <<>> => sh_winner[1] \in sh_sat
    /\ ShardDone
       => /\ sh_winner = <<>> <=> sh_sat = {}
          /\ sh_winner # <<>>
             => \A q \in StrideSat(sh_winner[1]) : sh_winner[1] <= q
          /\ (\A o, q \in sh_sat : o % sh_n = q % sh_n)
             => sh_winner = SequentialResult

\* Two workers, the nonces at offsets 0 and 1 both satisfying: worker 1 has
\* won with offset 1, where the sequential pass returns offset 0.
C15_Witness ==
    /\ ShardDone
    /\ sh_n = 2
    /\ sh_sat = {0, 1}
    /\ sh_winner = <<1>>

====
